---- MODULE Spec2Model ----
(***************************************************************************)
(* Bikers_Map: stress-minimising route selection (route_selector.py,       *)
(* config.py) and the greedy waypoint search (waypoint_planner.py) over    *)
(* the routing oracle get_routes (google_maps_client.py).                  *)
(*                                                                         *)
(* Python floats are modelled as exact extended rationals                  *)
(* [num |-> n, den |-> d] with d >= 0; d = 0 is float("inf").  The route   *)
(* values of the model are chosen so that no comparison of the program     *)
(* falls on a rounding boundary.                                           *)
(***************************************************************************)
EXTENDS Integers, Sequences, FiniteSets, TLC

VARIABLES
    \* ---- plan_relaxed_route_with_waypoints: arguments and locals
    pc,                       \* position in the function body
    max_waypoints,            \* argument
    candidates_per_step,      \* argument
    baseline_routes,          \* waypoint_planner.py:93
    shortest_distance,        \* waypoint_planner.py:97
    max_allowed_distance,     \* waypoint_planner.py:98
    current_best,             \* waypoint_planner.py:120
    chosen_waypoints,         \* waypoint_planner.py:127
    current_latlng,           \* waypoint_planner.py:128
    round,                    \* number of completed iterations of the for loop at :131
    candidates,               \* waypoint_planner.py:132
    cand_idx,                 \* number of candidates already scanned in this round
    improved,                 \* waypoint_planner.py:140
    best_candidate,           \* waypoint_planner.py:141
    best_candidate_waypoints, \* waypoint_planner.py:142
    result,                   \* the returned route, or the exception raised
    \* ---- the routing oracle get_routes
    calls,                    \* number of get_routes calls of the current run
    deterministic,            \* TRUE: a stub that answers a repeated request identically
    stub,                     \* the answers the deterministic stub has given so far
    \* ---- observation of the run (not program state)
    baseline_best,            \* current_best as selected from the baseline
    round_start_best,         \* current_best when the current round began
    round_start_waypoints,    \* chosen_waypoints when the current round began
    round_all_none,           \* every trial_best of the current round was None so far
    run,                      \* 1 or 2: which run against the stub
    first_result,             \* what the first run returned
    best_from,                \* the request current_best was taken from, and
                              \* whether it is a route of that request's answer
    \* ---- direct calls of the pure functions
    arg_routes,               \* select_best_route(routes): the argument (mutated in place)
    ret_route,                \* select_best_route: the returned value
    arg_duration,             \* compute_stress(duration, duration_in_traffic)
    arg_traffic,
    ret_stress,               \* compute_stress: the returned value
    arg_response,             \* get_routes: the provider's answer to its request
    ret_routes                \* get_routes: the returned list, or the exception raised

searchVars == <<pc, max_waypoints, candidates_per_step, baseline_routes,
                shortest_distance, max_allowed_distance, current_best,
                chosen_waypoints, current_latlng, round, candidates, cand_idx,
                improved, best_candidate, best_candidate_waypoints, result,
                calls, deterministic, stub, baseline_best, round_start_best,
                round_start_waypoints, round_all_none, run, first_result,
                best_from>>
selectVars == <<arg_routes, ret_route>>
stressVars == <<arg_duration, arg_traffic, ret_stress>>
routesVars == <<arg_response, ret_routes>>
vars == <<searchVars, selectVars, stressVars, routesVars>>

(***************************************************************************)
(* Bounds of the model.                                                    *)
(***************************************************************************)
\* longest route list the baseline get_routes call returns
MaxBaselineRoutes == 2
\* longest route list a trial get_routes call returns
MaxTrialRoutes == 1
\* largest max_waypoints argument
MaxWaypointsArg == 2
\* largest candidates_per_step argument
MaxCandidatesArg == 2
\* longest route list handed to select_best_route directly
MaxSelectRoutes == 3
\* compute_stress is called on durations in -MaxDuration .. MaxDuration
MaxDuration == 5
\* most routes in one payload of the provider
MaxPayloadRoutes == 2
\* most legs of one route of a payload
MaxLegs == 2

(***************************************************************************)
(* Values.                                                                 *)
(***************************************************************************)
None == [none |-> TRUE]
NotCalled == [pending |-> TRUE]
Raised(e) == [error |-> e]
\* a returned list, told apart from a raised exception
Ok(v) == [value |-> v]
IsError(v) == "error" \in DOMAIN v

\* float("inf")
Inf == [num |-> 1, den |-> 0]
Real(n) == [num |-> n, den |-> 1]
\* a < b on floats (a finite or inf, b finite or inf)
Lt(a, b) ==
    IF a.den = 0 THEN FALSE
    ELSE IF b.den = 0 THEN TRUE
    ELSE a.num * b.den < b.num * a.den
Le(a, b) == ~Lt(b, a)
RECURSIVE Gcd(_, _)
Gcd(m, n) == IF n = 0 THEN m ELSE Gcd(n, m % n)
\* the same number in lowest terms
Lowest(a) ==
    LET g == Gcd(IF a.num < 0 THEN 0 - a.num ELSE a.num, a.den)
    IN  IF g = 0 THEN a ELSE [num |-> a.num \div g, den |-> a.den \div g]
\* a - b for finite b
Sub(a, b) ==
    IF a.den = 0 THEN Inf
    ELSE Lowest([num |-> a.num * b.den - b.num * a.den, den |-> a.den * b.den])
Abs(a) == IF a.num < 0 THEN [num |-> 0 - a.num, den |-> a.den] ELSE a
\* a * r for an integer a and a float r
Times(a, r) == [num |-> a * r.num, den |-> r.den]

Route(d, t, tt) == [distance |-> d, duration |-> t, duration_in_traffic |-> tt]
\* {**r, "stress": stress, "cost": stress}
Scored(r, stress) ==
    [distance |-> r.distance, duration |-> r.duration,
     duration_in_traffic |-> r.duration_in_traffic, stress |-> stress, cost |-> stress]
Unscored(r) == Route(r.distance, r.duration, r.duration_in_traffic)

\* The routes an oracle answer is made of: distance (m), duration (s),
\* duration_in_traffic (s).  Three routes whose stress is pairwise within
\* or just beyond epsilon (1.2, 1.2008, 1.2016) and one long detour
\* (20 km, stress 1.0).
Routes ==
    { Route(9000, 1250, 1500), Route(8990, 1250, 1501),
      Route(8980, 1250, 1502), Route(20000, 1000, 1000) }

RECURSIVE SeqsUpTo(_, _)
SeqsUpTo(S, n) ==
    IF n = 0 THEN { <<>> }
    ELSE LET shorter == SeqsUpTo(S, n - 1)
         IN  shorter \cup { Append(s, e) : s \in { t \in shorter : Len(t) = n - 1 }, e \in S }

(***************************************************************************)
(* config.py                                                               *)
(***************************************************************************)
\* a ratio below 1 for every distance
GetMaxDistanceRatioBelowOne(distance_m) ==
    IF distance_m <= 0 THEN Raised("ValueError")
    ELSE [num |-> 1, den |-> 2]

\* get_max_distance_ratio(distance_m / 1000.0): the argument is kept in
\* metres, so the thresholds 5 and 10 (km) read 5000 and 10000.
GetMaxDistanceRatio(distance_m) ==
    IF distance_m <= 0 THEN Raised("ValueError")
    ELSE IF distance_m <= 5000 THEN Real(2)
    ELSE IF distance_m <= 10000 THEN [num |-> 17, den |-> 10]
    ELSE [num |-> 15, den |-> 10]

(***************************************************************************)
(* route_selector.py                                                       *)
(***************************************************************************)
STRESS_EPSILON == [num |-> 1, den |-> 1000]

\* duration_in_traffic / duration: Python raises ZeroDivisionError on a zero
\* divisor and divides by anything else.
ComputeStress(duration, duration_in_traffic) ==
    IF duration = 0 THEN Raised("ZeroDivisionError")
    ELSE IF duration < 0
         THEN [num |-> 0 - duration_in_traffic, den |-> 0 - duration]
         ELSE [num |-> duration_in_traffic, den |-> duration]

\* the comparison without its tie-break on distance (lines 26-28 dropped)
IsBetterNoTieBreak(stress_a, distance_a, stress_b, distance_b) ==
    Lt(stress_a, Sub(stress_b, STRESS_EPSILON))

\* the comparison by distance alone
IsBetterShortest(stress_a, distance_a, stress_b, distance_b) == Lt(distance_a, distance_b)

IsBetter(stress_a, distance_a, stress_b, distance_b) ==
    IF Lt(stress_a, Sub(stress_b, STRESS_EPSILON)) THEN TRUE
    ELSE IF /\ stress_b.den # 0
            /\ Le(Abs(Sub(stress_a, stress_b)), STRESS_EPSILON)
            /\ Lt(distance_a, distance_b) THEN TRUE
    ELSE FALSE

MinDistance(routes) ==
    CHOOSE d \in { routes[i].distance : i \in DOMAIN routes } :
        \A i \in DOMAIN routes : d <= routes[i].distance

\* select_best_route without its distance check (lines 47-48 dropped)
RECURSIVE SelectLoopNoLimit(_, _, _, _, _, _)
SelectLoopNoLimit(routes, i, max_allowed, best_route, best_stress, best_distance) ==
    IF i > Len(routes) THEN best_route
    ELSE LET route == routes[i]
             distance == route.distance
             stress == ComputeStress(route.duration, route.duration_in_traffic)
         IN  IF IsError(stress) THEN stress
             ELSE IF IsBetter(stress, Real(distance), best_stress, best_distance)
             THEN SelectLoopNoLimit(routes, i + 1, max_allowed, Scored(route, stress), stress, Real(distance))
             ELSE SelectLoopNoLimit(routes, i + 1, max_allowed, best_route, best_stress, best_distance)

\* the loop of select_best_route from route number i on; best is the route
\* held in best_route (None before the first hit)
RECURSIVE SelectLoop(_, _, _, _, _, _)
SelectLoop(routes, i, max_allowed, best_route, best_stress, best_distance) ==
    IF i > Len(routes) THEN best_route
    ELSE LET route == routes[i]
             distance == route.distance
             stress == ComputeStress(route.duration, route.duration_in_traffic)
         IN  IF Lt(max_allowed, Real(distance))
             THEN SelectLoop(routes, i + 1, max_allowed, best_route, best_stress, best_distance)
             ELSE IF IsError(stress) THEN stress
             ELSE IF IsBetter(stress, Real(distance), best_stress, best_distance)
             THEN SelectLoop(routes, i + 1, max_allowed, Scored(route, stress), stress, Real(distance))
             ELSE SelectLoop(routes, i + 1, max_allowed, best_route, best_stress, best_distance)

SelectBestRoute(routes) ==
    IF routes = <<>> THEN Raised("ValueError")
    ELSE LET shortest == MinDistance(routes)
             ratio == GetMaxDistanceRatio(shortest)
         IN  IF IsError(ratio) THEN ratio
             ELSE SelectLoop(routes, 1, Times(shortest, ratio), None, Inf, Inf)

\* the in-place side effect of select_best_route on its argument: every
\* route within the limit gets "stress" and "cost" attached
SelectAttach(routes) ==
    IF routes = <<>> \/ IsError(SelectBestRoute(routes)) THEN routes
    ELSE LET max_allowed ==
                 Times(MinDistance(routes), GetMaxDistanceRatio(MinDistance(routes)))
         IN  [i \in DOMAIN routes |->
                 IF Lt(max_allowed, Real(routes[i].distance)) THEN routes[i]
                 ELSE Scored(routes[i],
                             ComputeStress(routes[i].duration, routes[i].duration_in_traffic))]

(***************************************************************************)
(* google_maps_client.py: get_routes over the provider's HTTP answer       *)
(***************************************************************************)
\* what the Directions API can answer: a transport failure, a payload with
\* a non-OK status, or an OK payload with a (possibly empty) list of routes
Response(code, status, routes) == [status_code |-> code, status |-> status, routes |-> routes]
ProviderFailures ==
    { Response(500, "", <<>>), Response(200, "ZERO_RESULTS", <<>>) }
ProviderResponses(longest) ==
    ProviderFailures \cup { Response(200, "OK", rs) : rs \in SeqsUpTo(Routes, longest) }

\* the part of get_routes after the HTTP request: the list of routes, or
\* the exception raised.  The routes of a payload are given with their legs
\* already summed (lines 81-94).
GetRoutes(response) ==
    IF response.status_code # 200 THEN Raised("Exception")
    ELSE IF response.status \notin {"None", "OK"} THEN Raised("Exception")
    ELSE Ok(response.routes)

\* the legs of a payload route: with and without traffic data
Legs ==
    { [distance |-> 4000, duration |-> 600, duration_in_traffic |-> 700],
      [distance |-> 5000, duration |-> 650] }

\* leg.get("duration_in_traffic", leg["duration"])["value"]
LegTraffic(leg) ==
    IF "duration_in_traffic" \in DOMAIN leg THEN leg.duration_in_traffic ELSE leg.duration

\* _sum_legs(legs) from leg number i on, added to the sums so far
RECURSIVE SumLegs(_, _, _)
SumLegs(legs, i, sums) ==
    IF i > Len(legs) THEN sums
    ELSE SumLegs(legs, i + 1,
                 Route(sums.distance + legs[i].distance,
                       sums.duration + legs[i].duration,
                       sums.duration_in_traffic + LegTraffic(legs[i])))

\* lines 79-94: the route dicts of the payload's routes (each given as the
\* list of its legs), a route without legs left out
RECURSIVE ParseRoutes(_, _)
ParseRoutes(payload_routes, i) ==
    IF i > Len(payload_routes) THEN <<>>
    ELSE IF payload_routes[i] = <<>> THEN ParseRoutes(payload_routes, i + 1)
    ELSE <<SumLegs(payload_routes[i], 1, Route(0, 0, 0))>>
             \o ParseRoutes(payload_routes, i + 1)

\* the statuses of a payload: absent, success, no route found, a refusal
Statuses == {"None", "OK", "ZERO_RESULTS", "REQUEST_DENIED"}

\* the provider's answers with their routes given leg by leg
Payloads ==
    { Response(code, status, rs) :
        code \in {200, 500}, status \in Statuses,
        rs \in SeqsUpTo(SeqsUpTo(Legs, MaxLegs), MaxPayloadRoutes) }

\* get_routes on a payload whose routes are given leg by leg
GetRoutesOfPayload(response) ==
    GetRoutes(Response(response.status_code, response.status,
                       ParseRoutes(response.routes, 1)))

\* A deterministic stub in place of the provider: no route or one of three
\* routes, and the same answer for the same waypoint sequence.
StubRoutes == { Route(9000, 1250, 1500), Route(8980, 1250, 1502), Route(20000, 1000, 1000) }
StubResponses ==
    { Response(200, "OK", <<>>) } \cup { Response(200, "OK", <<r>>) : r \in StubRoutes }

\* the answers get_routes(origin, destination, waypoints) can receive
Answers(waypoints) ==
    IF ~deterministic
    THEN ProviderResponses(IF waypoints = <<>> THEN MaxBaselineRoutes ELSE MaxTrialRoutes)
    ELSE IF waypoints \in DOMAIN stub THEN { stub[waypoints] }
    ELSE StubResponses

\* one get_routes call answered by response
Call(waypoints, response) ==
    /\ calls' = calls + 1
    /\ stub' = IF deterministic THEN (waypoints :> response) @@ stub ELSE stub

(***************************************************************************)
(* waypoint_planner.py                                                     *)
(***************************************************************************)
\* A point is the sequence of bearing numbers that leads to it from the
\* origin: candidate i around a pivot is the pivot's sequence extended by i.
\* (_bearing_deg and _destination_point: distinct bearings from one pivot
\* give distinct points.)
Origin == <<>>

\* one bearing more than asked for
NumBearingsInclusive(num_points) == IF num_points <= 1 THEN 1 ELSE num_points + 1

\* len(bearings) in _candidate_circle_points
NumBearings(num_points) == IF num_points <= 1 THEN 1 ELSE num_points

CandidateCirclePoints(origin_latlng, num_points) ==
    [i \in 1 .. NumBearings(num_points) |-> Append(origin_latlng, i)]

\* f"{lat:.6f},{lng:.6f}": the token of a point
FormatLatLng(point) == [latlng |-> point]

\* _best_under_limit(routes) with the closure variable max_allowed_distance
RECURSIVE BestLoop(_, _, _, _, _, _)
BestLoop(routes, i, limit, best, best_stress, best_distance) ==
    IF i > Len(routes) THEN best
    ELSE LET r == routes[i]
             stress == ComputeStress(r.duration, r.duration_in_traffic)
         IN  IF Lt(limit, Real(r.distance))
             THEN BestLoop(routes, i + 1, limit, best, best_stress, best_distance)
             ELSE IF IsError(stress) THEN stress
             ELSE IF IsBetter(stress, Real(r.distance), best_stress, best_distance)
             THEN BestLoop(routes, i + 1, limit, Scored(r, stress), stress, Real(r.distance))
             ELSE BestLoop(routes, i + 1, limit, best, best_stress, best_distance)

BestUnderLimit(routes, limit) == BestLoop(routes, 1, limit, None, Inf, Inf)

\* the limit taken anew from the trial routes, as select_best_route takes it
TrialLimitMoving(trial_routes) ==
    IF trial_routes = <<>> THEN max_allowed_distance
    ELSE Times(MinDistance(trial_routes), GetMaxDistanceRatio(MinDistance(trial_routes)))

\* the limit the trial routes of the search are held to: the closure
\* variable of _best_under_limit, assigned once at line 98
TrialLimit(trial_routes) == max_allowed_distance

\* min(baseline_routes, key=lambda x: x["distance"]): the first of the shortest
ShortestRoute(routes) ==
    routes[CHOOSE i \in DOMAIN routes :
               /\ routes[i].distance = MinDistance(routes)
               /\ \A j \in DOMAIN routes : routes[j].distance = MinDistance(routes) => i <= j]

\* lines 93-125 on the answer of the baseline call: the exception raised, or
\* the locals assigned
BaselineOutcome(answer) ==
    IF IsError(answer) THEN answer
    ELSE IF answer.value = <<>> THEN Raised("Exception")
    ELSE LET routes == answer.value
             shortest == MinDistance(routes)
             ratio == GetMaxDistanceRatio(shortest)
         IN  IF IsError(ratio) THEN ratio
             ELSE LET limit == Times(shortest, ratio)
                      best == BestUnderLimit(routes, limit)
                      r == ShortestRoute(routes)
                      stress == ComputeStress(r.duration, r.duration_in_traffic)
                  IN  IF IsError(best) THEN best
                      ELSE IF best = None /\ IsError(stress) THEN stress
                      ELSE [shortest_distance |-> shortest,
                            max_allowed_distance |-> limit,
                            current_best |-> IF best = None THEN Scored(r, stress) ELSE best]

\* one iteration too many
LoopContinuesOnceMore(done_rounds) == done_rounds <= max_waypoints

\* range(max_waypoints): whether the for loop at line 131 has another iteration
LoopContinues(done_rounds) == done_rounds < max_waypoints

\* the list of an earlier call kept (a list that outlives the call)
KeptWaypoints == chosen_waypoints

\* chosen_waypoints = [] (line 127)
NoWaypoints == <<>>

\* the new token put in front
TrialWaypointsPrepended(point) == <<FormatLatLng(point)>> \o chosen_waypoints

\* trial_waypoints = chosen_waypoints + [wp] (lines 145-148)
TrialWaypoints(point) == Append(chosen_waypoints, FormatLatLng(point))

\* lines 172-177: the route returned, with the three fields added to it
Returned(best, waypoints) ==
    [distance |-> best.distance, duration |-> best.duration,
     duration_in_traffic |-> best.duration_in_traffic,
     stress |-> best.stress, cost |-> best.cost,
     waypoints |-> waypoints,
     max_allowed_distance |-> max_allowed_distance,
     shortest_distance |-> shortest_distance]

\* lines 145-164 for one candidate, on the answer of its get_routes call
\* the scan keeping the waypoints of the round's first improving candidate
\* while current_best moves on to a later one
ScanOutcomeFirstCandidate(point, answer) ==
    LET trial_waypoints == TrialWaypoints(point)
        trial_best == IF IsError(answer) THEN answer
                      ELSE BestUnderLimit(answer.value, TrialLimit(answer.value))
        same == [raised |-> FALSE, exception |-> None, none |-> TRUE,
                 improved |-> improved,
                 current_best |-> current_best, best_candidate |-> best_candidate,
                 best_candidate_waypoints |-> best_candidate_waypoints]
    IN  IF IsError(trial_best)
        THEN [same EXCEPT !.raised = TRUE, !.exception = trial_best]
        ELSE IF trial_best = None THEN same
        ELSE IF IsBetter(trial_best.stress, Real(trial_best.distance),
                         current_best.stress, Real(current_best.distance))
        THEN [raised |-> FALSE, exception |-> None, none |-> FALSE, improved |-> TRUE,
              current_best |-> trial_best,
              best_candidate |-> IF improved THEN best_candidate ELSE point,
              best_candidate_waypoints |->
                  IF improved THEN best_candidate_waypoints ELSE trial_waypoints]
        ELSE [same EXCEPT !.none = FALSE]

ScanOutcome(point, answer) ==
    LET trial_waypoints == TrialWaypoints(point)
        trial_best == IF IsError(answer) THEN answer
                      ELSE BestUnderLimit(answer.value, TrialLimit(answer.value))
        same == [raised |-> FALSE, exception |-> None, none |-> TRUE,
                 improved |-> improved,
                 current_best |-> current_best, best_candidate |-> best_candidate,
                 best_candidate_waypoints |-> best_candidate_waypoints]
    IN  IF IsError(trial_best)
        THEN [same EXCEPT !.raised = TRUE, !.exception = trial_best]
        ELSE IF trial_best = None THEN same
        ELSE IF IsBetter(trial_best.stress, Real(trial_best.distance),
                         current_best.stress, Real(current_best.distance))
        THEN [raised |-> FALSE, exception |-> None, none |-> FALSE, improved |-> TRUE,
              current_best |-> trial_best, best_candidate |-> point,
              best_candidate_waypoints |-> trial_waypoints]
        ELSE [same EXCEPT !.none = FALSE]

(***************************************************************************)
(* The steps of plan_relaxed_route_with_waypoints.                         *)
(***************************************************************************)
\* best is one of the routes of an answer, with its score attached
IsReturned(best, routes) ==
    \E i \in DOMAIN routes : Unscored(routes[i]) = Unscored(best)

loopVars == <<round, candidates, cand_idx, improved, best_candidate,
              best_candidate_waypoints>>
roundObs == <<round_start_best, round_start_waypoints, round_all_none>>
argVars == <<max_waypoints, candidates_per_step, deterministic, run, first_result>>
fromObs == <<best_from>>
pureVars == <<selectVars, stressVars, routesVars>>

\* lines 93-129, the baseline call raising or returning no route
BaselineFails ==
    /\ pc = "start"
    /\ \E response \in Answers(<<>>) :
         \E out \in { BaselineOutcome(GetRoutes(response)) } :
             /\ IsError(out)
             /\ Call(<<>>, response)
             /\ pc' = "raised"
             /\ result' = out
    /\ UNCHANGED <<baseline_routes, shortest_distance, max_allowed_distance,
                   current_best, chosen_waypoints, current_latlng, baseline_best>>
    /\ UNCHANGED <<loopVars, roundObs, fromObs, argVars, pureVars>>

\* lines 93-129, the baseline selected
Baseline ==
    /\ pc = "start"
    /\ \E response \in Answers(<<>>) :
         \E out \in { BaselineOutcome(GetRoutes(response)) } :
             /\ ~IsError(out)
             /\ Call(<<>>, response)
             /\ baseline_routes' = GetRoutes(response).value
             /\ shortest_distance' = out.shortest_distance
             /\ max_allowed_distance' = out.max_allowed_distance
             /\ current_best' = out.current_best
             /\ baseline_best' = out.current_best
             /\ best_from' = [waypoints |-> <<>>,
                              returned |-> IsReturned(out.current_best,
                                                      GetRoutes(response).value)]
    /\ chosen_waypoints' = NoWaypoints
    /\ current_latlng' = Origin
    /\ round' = 0
    /\ pc' = "loop"
    /\ UNCHANGED <<candidates, cand_idx, improved, best_candidate,
                   best_candidate_waypoints, result>>
    /\ UNCHANGED <<roundObs, argVars, pureVars>>

\* lines 131-142: the loop has another iteration
BeginRound ==
    /\ pc = "loop"
    /\ LoopContinues(round)
    /\ candidates' = CandidateCirclePoints(current_latlng, candidates_per_step)
    /\ improved' = FALSE
    /\ best_candidate' = None
    /\ best_candidate_waypoints' = None
    /\ cand_idx' = 0
    /\ round_start_best' = current_best
    /\ round_start_waypoints' = chosen_waypoints
    /\ round_all_none' = TRUE
    /\ pc' = "scan"
    /\ UNCHANGED <<baseline_routes, shortest_distance, max_allowed_distance,
                   current_best, chosen_waypoints, current_latlng, round, result,
                   calls, stub, baseline_best, best_from>>
    /\ UNCHANGED <<argVars, pureVars>>

\* line 131: range(max_waypoints) is exhausted
LoopExhausted ==
    /\ pc = "loop"
    /\ ~LoopContinues(round)
    /\ pc' = "return"
    /\ UNCHANGED <<baseline_routes, shortest_distance, max_allowed_distance,
                   current_best, chosen_waypoints, current_latlng, result,
                   calls, stub, baseline_best>>
    /\ UNCHANGED <<loopVars, roundObs, fromObs, argVars, pureVars>>

\* lines 144-164: the next candidate of the round
ScanCandidate ==
    /\ pc = "scan"
    /\ cand_idx < Len(candidates)
    /\ LET point == candidates[cand_idx + 1]
           trial_waypoints == TrialWaypoints(point)
       IN  \E response \in Answers(trial_waypoints) :
             \E out \in { ScanOutcome(point, GetRoutes(response)) } :
                 /\ Call(trial_waypoints, response)
                 /\ pc' = IF out.raised THEN "raised" ELSE "scan"
                 /\ result' = IF out.raised THEN out.exception ELSE result
                 /\ improved' = out.improved
                 /\ current_best' = out.current_best
                 /\ best_candidate' = out.best_candidate
                 /\ best_candidate_waypoints' = out.best_candidate_waypoints
                 /\ round_all_none' = (round_all_none /\ out.none)
                 /\ best_from' = IF out.current_best # current_best
                                 THEN [waypoints |-> trial_waypoints,
                                       returned |-> IsReturned(out.current_best,
                                                               GetRoutes(response).value)]
                                 ELSE best_from
    /\ cand_idx' = cand_idx + 1
    /\ UNCHANGED <<baseline_routes, shortest_distance, max_allowed_distance,
                   chosen_waypoints, current_latlng, round, candidates,
                   baseline_best, round_start_best, round_start_waypoints>>
    /\ UNCHANGED <<argVars, pureVars>>

\* the loop going on where it should break
EndRoundContinue ==
    /\ pc = "scan"
    /\ cand_idx = Len(candidates)
    /\ ~improved
    /\ round' = round + 1
    /\ pc' = "loop"
    /\ UNCHANGED <<baseline_routes, shortest_distance, max_allowed_distance,
                   current_best, chosen_waypoints, current_latlng, result,
                   calls, stub, baseline_best, candidates, cand_idx, improved,
                   best_candidate, best_candidate_waypoints>>
    /\ UNCHANGED <<roundObs, fromObs, argVars, pureVars>>

\* lines 166-167: no candidate of the round improved
EndRoundBreak ==
    /\ pc = "scan"
    /\ cand_idx = Len(candidates)
    /\ ~improved
    /\ pc' = "return"
    /\ UNCHANGED <<baseline_routes, shortest_distance, max_allowed_distance,
                   current_best, chosen_waypoints, current_latlng, result,
                   calls, stub, baseline_best>>
    /\ UNCHANGED <<loopVars, roundObs, fromObs, argVars, pureVars>>

\* lines 169-170: the round's best candidate is accepted
EndRoundAccept ==
    /\ pc = "scan"
    /\ cand_idx = Len(candidates)
    /\ improved
    /\ chosen_waypoints' = best_candidate_waypoints
    /\ current_latlng' = best_candidate
    /\ round' = round + 1
    /\ pc' = "loop"
    /\ UNCHANGED <<baseline_routes, shortest_distance, max_allowed_distance,
                   current_best, result, calls, stub, baseline_best,
                   candidates, cand_idx, improved, best_candidate,
                   best_candidate_waypoints>>
    /\ UNCHANGED <<roundObs, fromObs, argVars, pureVars>>

\* lines 172-177
Return ==
    /\ pc = "return"
    /\ current_best' = Returned(current_best, chosen_waypoints)
    /\ result' = Returned(current_best, chosen_waypoints)
    /\ pc' = "done"
    /\ UNCHANGED <<baseline_routes, shortest_distance, max_allowed_distance,
                   chosen_waypoints, current_latlng, calls, stub, baseline_best>>
    /\ UNCHANGED <<loopVars, roundObs, fromObs, argVars, pureVars>>

\* the same call once more against the same stub; the locals of the first
\* call are left as they were, the body has to assign what it reads
Rerun ==
    /\ pc \in {"done", "raised"}
    /\ deterministic
    /\ run = 1
    /\ run' = 2
    /\ first_result' = result
    /\ result' = NotCalled
    /\ calls' = 0
    /\ pc' = "start"
    /\ UNCHANGED <<baseline_routes, shortest_distance, max_allowed_distance,
                   current_best, chosen_waypoints, current_latlng, stub,
                   baseline_best, max_waypoints, candidates_per_step, deterministic>>
    /\ UNCHANGED <<loopVars, roundObs, fromObs, pureVars>>

(***************************************************************************)
(* Direct calls of select_best_route and compute_stress.                   *)
(***************************************************************************)
\* the routes select_best_route is called on: those of the oracle, a
\* clearly calmer one (1.05), a clearly worse one (1.5) and one of distance 0
SelectInputs ==
    SeqsUpTo(Routes \cup { Route(12000, 1000, 1050), Route(10000, 1000, 1500),
                           Route(0, 1000, 1000) }, MaxSelectRoutes)

CallSelectBestRoute ==
    /\ ret_route = NotCalled
    /\ ret_route' = SelectBestRoute(arg_routes)
    /\ arg_routes' = SelectAttach(arg_routes)
    /\ UNCHANGED <<searchVars, stressVars, routesVars>>

CallComputeStress ==
    /\ ret_stress = NotCalled
    /\ ret_stress' = ComputeStress(arg_duration, arg_traffic)
    /\ UNCHANGED <<searchVars, selectVars, routesVars, arg_duration, arg_traffic>>

\* get_routes, lines 68-96, on one answer of the provider
CallGetRoutes ==
    /\ ret_routes = NotCalled
    /\ ret_routes' = GetRoutesOfPayload(arg_response)
    /\ UNCHANGED <<searchVars, selectVars, stressVars, arg_response>>

(***************************************************************************)
(* Specifications.                                                         *)
(***************************************************************************)
IdleSearch ==
    /\ pc = "idle"
    /\ max_waypoints = 0 /\ candidates_per_step = 0
    /\ baseline_routes = <<>> /\ shortest_distance = 0
    /\ max_allowed_distance = Real(0)
    /\ current_best = None /\ chosen_waypoints = <<>> /\ current_latlng = Origin
    /\ round = 0 /\ candidates = <<>> /\ cand_idx = 0 /\ improved = FALSE
    /\ best_candidate = None /\ best_candidate_waypoints = None
    /\ result = NotCalled /\ calls = 0 /\ deterministic = FALSE /\ stub = <<>>
    /\ baseline_best = None /\ round_start_best = None
    /\ round_start_waypoints = <<>> /\ round_all_none = FALSE
    /\ run = 1 /\ first_result = NotCalled
    /\ best_from = None
IdleSelect == arg_routes = <<>> /\ ret_route = None
IdleStress == arg_duration = 1 /\ arg_traffic = 1 /\ ret_stress = None
IdleRoutes == arg_response = None /\ ret_routes = None

InitSearch(det) ==
    /\ pc = "start"
    /\ max_waypoints \in 0 .. MaxWaypointsArg
    /\ candidates_per_step \in 0 .. MaxCandidatesArg
    /\ baseline_routes = <<>> /\ shortest_distance = 0
    /\ max_allowed_distance = Real(0)
    /\ current_best = None /\ chosen_waypoints = <<>> /\ current_latlng = Origin
    /\ round = 0 /\ candidates = <<>> /\ cand_idx = 0 /\ improved = FALSE
    /\ best_candidate = None /\ best_candidate_waypoints = None
    /\ result = NotCalled /\ calls = 0 /\ deterministic = det /\ stub = <<>>
    /\ baseline_best = None /\ round_start_best = None
    /\ round_start_waypoints = <<>> /\ round_all_none = FALSE
    /\ run = 1 /\ first_result = NotCalled
    /\ best_from = None

\* one run of the search against the provider
Init == InitSearch(FALSE) /\ IdleSelect /\ IdleStress /\ IdleRoutes
Next ==
    \/ BaselineFails
    \/ Baseline
    \/ BeginRound
    \/ LoopExhausted
    \/ ScanCandidate
    \/ EndRoundBreak
    \/ EndRoundAccept
    \/ Return
Spec == Init /\ [][Next]_vars

\* two runs of the search against one deterministic stub
InitTwice == InitSearch(TRUE) /\ IdleSelect /\ IdleStress /\ IdleRoutes
NextTwice ==
    \/ BaselineFails
    \/ Baseline
    \/ BeginRound
    \/ LoopExhausted
    \/ ScanCandidate
    \/ EndRoundBreak
    \/ EndRoundAccept
    \/ Return
    \/ Rerun
SpecTwice == InitTwice /\ [][NextTwice]_vars

\* select_best_route on every route list of the bounds
InitSelect ==
    /\ IdleSearch /\ IdleStress /\ IdleRoutes
    /\ arg_routes \in SelectInputs /\ ret_route = NotCalled
NextSelect == CallSelectBestRoute
SpecSelect == InitSelect /\ [][NextSelect]_vars

\* compute_stress on every pair of durations of the bounds
InitStress ==
    /\ IdleSearch /\ IdleSelect /\ IdleRoutes
    /\ arg_duration \in (0 - MaxDuration) .. MaxDuration
    /\ arg_traffic \in (0 - MaxDuration) .. MaxDuration
    /\ ret_stress = NotCalled
NextStress == CallComputeStress
SpecStress == InitStress /\ [][NextStress]_vars

\* the selection under the distance limit, by the search on its baseline
\* routes and by select_best_route on a route list
InitBaseline == Init \/ InitSelect
NextBaseline == Next \/ NextSelect
SpecBaseline == InitBaseline /\ [][NextBaseline]_vars

\* get_routes on every answer of the bounds
InitRoutes ==
    /\ IdleSearch /\ IdleSelect /\ IdleStress
    /\ arg_response \in Payloads
    /\ ret_routes = NotCalled
NextRoutes == CallGetRoutes
SpecRoutes == InitRoutes /\ [][NextRoutes]_vars

(***************************************************************************)
(* Properties.                                                             *)
(***************************************************************************)
Started == pc \in {"loop", "scan", "return", "done"}
IsRoute(v) == "distance" \in DOMAIN v
PositiveDistances(routes) == \A i \in DOMAIN routes : routes[i].distance > 0
\* shortest * ratio(shortest / 1000) of a route list
LimitOf(routes) == Times(MinDistance(routes), GetMaxDistanceRatio(MinDistance(routes)))
StressOf(r) == ComputeStress(r.duration, r.duration_in_traffic)
RoundScanned == pc = "scan" /\ cand_idx = Len(candidates)
MaxOf(a, b) == IF a >= b THEN a ELSE b

\* C1 (as claimed): the stress of the returned route is at most the stress
\* of the baseline-selected route plus epsilon.
C1_Original ==
    pc = "done" =>
        ~Lt(Sub(baseline_best.stress, [num |-> -1, den |-> 1000]), result.stress)

\* C2: select_best_route never returns a route longer than
\* shortestDistance * ratio(shortestDistance / 1000) of its own argument.
C2_WithinLimit ==
    (IsRoute(ret_route) /\ PositiveDistances(arg_routes)) =>
        Le(Real(ret_route.distance), LimitOf(arg_routes))
\* a route was returned while a better-scored route of the list was over the limit
C2_Witness ==
    /\ IsRoute(ret_route)
    /\ PositiveDistances(arg_routes)
    /\ \E i \in DOMAIN arg_routes :
         /\ Lt(LimitOf(arg_routes), Real(arg_routes[i].distance))
         /\ Lt(StressOf(arg_routes[i]), Sub(ret_route.stress, STRESS_EPSILON))

\* C3: throughout a run, from the baseline selection on, current_best is
\* within max_allowed_distance, and max_allowed_distance is the limit of the
\* baseline routes.
C3_BestWithinBaselineLimit ==
    Started =>
        /\ Le(Real(current_best.distance), max_allowed_distance)
        /\ max_allowed_distance = LimitOf(baseline_routes)
        /\ shortest_distance = MinDistance(baseline_routes)
\* a waypoint was accepted whose route is longer than the baseline's shortest
C3_Witness ==
    /\ pc = "done"
    /\ Len(chosen_waypoints) >= 1
    /\ current_best.distance > shortest_distance

\* C4: a route within the limit whose stress is lower than that of every
\* other route within the limit by more than epsilon is the one returned.
C4_ClearWinnerReturned ==
    \A i \in DOMAIN arg_routes :
        ( /\ ret_route # NotCalled
          /\ PositiveDistances(arg_routes)
          /\ Le(Real(arg_routes[i].distance), LimitOf(arg_routes))
          /\ \A j \in DOMAIN arg_routes \ {i} :
                Le(Real(arg_routes[j].distance), LimitOf(arg_routes)) =>
                    Lt(StressOf(arg_routes[i]), Sub(StressOf(arg_routes[j]), STRESS_EPSILON)) )
        => ret_route = arg_routes[i]
\* the scenario [10000, 12000, 9000] m with stress [1.5, 1.05, 1.2]
C4_Witness ==
    /\ Len(arg_routes) = 3
    /\ Unscored(arg_routes[1]) = Route(10000, 1000, 1500)
    /\ Unscored(arg_routes[2]) = Route(12000, 1000, 1050)
    /\ Unscored(arg_routes[3]) = Route(9000, 1250, 1500)
    /\ IsRoute(ret_route)
    /\ ret_route.distance = 12000

\* C5: a round whose every trial_best was None leaves chosen_waypoints and
\* current_best as they were when it began, and the search goes from it
\* straight to its return, with no further call.
C5_AllNoneRoundEnds ==
    [][ /\ (RoundScanned /\ round_all_none) =>
              /\ current_best = round_start_best
              /\ chosen_waypoints = round_start_waypoints
              /\ pc' = "return"
              /\ current_best' = current_best
              /\ chosen_waypoints' = chosen_waypoints
              /\ calls' = calls
        /\ pc = "return" =>
              /\ pc' = "done"
              /\ chosen_waypoints' = chosen_waypoints
              /\ Unscored(current_best') = Unscored(current_best)
              /\ calls' = calls ]_vars
\* such a round, of two candidates or more, after a waypoint was accepted
C5_Witness ==
    /\ RoundScanned
    /\ round_all_none
    /\ Len(candidates) >= 2
    /\ chosen_waypoints # <<>>

\* C6: with max_waypoints = 0 the run makes one get_routes call and returns
\* the baseline-selected route with no waypoints.
C6_ZeroWaypoints ==
    max_waypoints = 0 =>
        /\ calls <= 1
        /\ pc = "done" =>
              /\ calls = 1
              /\ result.waypoints = <<>>
              /\ Unscored(result) = Unscored(baseline_best)
              /\ result.stress = baseline_best.stress
              /\ baseline_best = BestUnderLimit(baseline_routes, LimitOf(baseline_routes))
C6_Witness ==
    /\ max_waypoints = 0
    /\ pc = "done"
    /\ Len(baseline_routes) >= 2
    /\ result.distance > shortest_distance

\* C7 (as claimed): the number of get_routes calls of a run never exceeds
\* max_waypoints * candidates_per_step + 1.
C7_Original == calls <= max_waypoints * candidates_per_step + 1
\* C7 (amended): the number of get_routes calls of a run never exceeds
\* max_waypoints * max(candidates_per_step, 1) + 1.
C7_Amended == calls <= max_waypoints * MaxOf(candidates_per_step, 1) + 1
\* a run of two rounds or more that made as many calls as the bound allows
C7_Witness ==
    /\ pc = "done"
    /\ max_waypoints >= 2
    /\ candidates_per_step >= 2
    /\ calls = max_waypoints * candidates_per_step + 1

\* C8: the second run against the same deterministic stub ends as the first
\* did: the same returned route, the same waypoints (or the same exception).
C8_SecondRunSame ==
    (run = 2 /\ pc \in {"done", "raised"}) =>
        /\ result = first_result
        /\ pc = "done" => /\ chosen_waypoints = first_result.waypoints
                          /\ current_best = first_result
\* a second run that ended with an accepted waypoint
C8_Witness ==
    /\ run = 2
    /\ pc = "done"
    /\ Len(result.waypoints) >= 1

\* C9: every step leaves chosen_waypoints as it is or appends one token to
\* it, and it never grows beyond max_waypoints.
C9_AppendOnly ==
    [][ /\ \/ chosen_waypoints' = chosen_waypoints
           \/ /\ Len(chosen_waypoints') = Len(chosen_waypoints) + 1
              /\ SubSeq(chosen_waypoints', 1, Len(chosen_waypoints)) = chosen_waypoints
        /\ Len(chosen_waypoints') <= max_waypoints ]_vars
\* a second waypoint was appended to a first
C9_Witness ==
    /\ Len(chosen_waypoints) = 2
    /\ max_waypoints = 2
    /\ pc = "done"

\* C10 (as claimed): compute_stress fails for every duration <= 0 and
\* returns duration_in_traffic / duration for a duration > 0.
C10_Original ==
    ret_stress # NotCalled =>
        /\ arg_duration <= 0 => IsError(ret_stress)
        /\ arg_duration > 0 => ret_stress = [num |-> arg_traffic, den |-> arg_duration]

\* the provider found no route: a success payload without a (non-empty)
\* route, or its status for "no route found"
ZeroRoutesFound(response) ==
    /\ response.status_code = 200
    /\ \/ response.status = "ZERO_RESULTS"
       \/ /\ response.status \in {"None", "OK"}
          /\ \A i \in DOMAIN response.routes : response.routes[i] = <<>>
\* the transport failed or the provider reported another status than success
ProviderFailed(response) ==
    \/ response.status_code # 200
    \/ response.status \notin {"None", "OK", "ZERO_RESULTS"}

\* C11 (as claimed): get_routes returns the empty sequence, without failing,
\* whenever the provider found zero routes, and fails only on a transport
\* failure or a non-success status of the provider.
C11_Original ==
    ret_routes # NotCalled /\ ret_routes # None =>
        /\ ZeroRoutesFound(arg_response) => ret_routes = Ok(<<>>)
        /\ IsError(ret_routes) => ProviderFailed(arg_response)

\* C12 (as claimed): at the end of every round that accepts a candidate, the
\* trial-best of the accepted candidate is better, under the comparison of
\* _is_better, than the current_best held when the round began.
C12_Original ==
    RoundScanned /\ improved =>
        IsBetter(current_best.stress, Real(current_best.distance),
                 round_start_best.stress, Real(round_start_best.distance))

\* route a is better than route b, as lines 22-29 of route_selector.py
\* compare two routes of positive duration: clearly calmer, or within
\* epsilon of each other's stress and shorter
Better(a, b) ==
    \/ Lt(StressOf(a), Sub(StressOf(b), STRESS_EPSILON))
    \/ /\ Le(Abs(Sub(StressOf(a), StressOf(b))), STRESS_EPSILON)
       /\ a.distance < b.distance
\* the positions of the routes within the limit
WithinLimit(routes) ==
    { i \in DOMAIN routes : Le(Real(routes[i].distance), LimitOf(routes)) }
\* the comparison is transitive on the routes within the limit
TransitiveWithinLimit(routes) ==
    \A i, j, k \in WithinLimit(routes) :
        (Better(routes[i], routes[j]) /\ Better(routes[j], routes[k]))
            => Better(routes[i], routes[k])
\* the positions the returned route was taken from
ReturnedAt(routes, ret) ==
    { i \in DOMAIN routes : Unscored(routes[i]) = Unscored(ret) }

\* C13 (as claimed): no route of the input within the limit is better than
\* the route select_best_route returns.
C13_Original ==
    (IsRoute(ret_route) /\ PositiveDistances(arg_routes)) =>
        \A i \in WithinLimit(arg_routes) : ~Better(arg_routes[i], ret_route)

\* C13 (amended): no route within the limit that comes later in the input
\* than the returned route is better than it; and when the comparison is
\* transitive on the routes within the limit, no route within the limit is
\* better than the returned route.
C13_Amended ==
    (IsRoute(ret_route) /\ PositiveDistances(arg_routes)) =>
        /\ ReturnedAt(arg_routes, ret_route) \cap WithinLimit(arg_routes) # {}
        /\ \E at \in ReturnedAt(arg_routes, ret_route) :
              \A i \in WithinLimit(arg_routes) : i > at => ~Better(arg_routes[i], ret_route)
        /\ TransitiveWithinLimit(arg_routes) =>
              \A i \in WithinLimit(arg_routes) : ~Better(arg_routes[i], ret_route)
\* three routes within the limit, compared transitively, of which the middle
\* one is returned: it beats the one before it and is not beaten by the one after
C13_Witness ==
    /\ IsRoute(ret_route)
    /\ PositiveDistances(arg_routes)
    /\ WithinLimit(arg_routes) = {1, 2, 3}
    /\ TransitiveWithinLimit(arg_routes)
    /\ ReturnedAt(arg_routes, ret_route) = {2}
    /\ Better(arg_routes[2], arg_routes[1])
    /\ ~Better(arg_routes[3], arg_routes[2])

\* a round has ended, or the search is at or past its return
BetweenRounds == pc \in {"loop", "return", "done"}

\* C14: at the end of every round and at return, current_best is a route of
\* the answer to the request made with exactly chosen_waypoints; with no
\* waypoint chosen that answer is the baseline's and the pivot is the origin,
\* otherwise the pivot is the point whose token is the last chosen waypoint.
C14_BestMatchesWaypoints ==
    BetweenRounds =>
        /\ best_from.waypoints = chosen_waypoints
        /\ best_from.returned
        /\ chosen_waypoints = <<>> =>
              /\ IsReturned(current_best, baseline_routes)
              /\ current_latlng = Origin
        /\ chosen_waypoints # <<>> =>
              FormatLatLng(current_latlng) = chosen_waypoints[Len(chosen_waypoints)]
        /\ pc = "done" => result.waypoints = chosen_waypoints
\* a round accepted its second candidate after its first one had improved
\* too: the accepted route is not better than the round's starting route
C14_Witness ==
    /\ pc = "loop"
    /\ improved
    /\ chosen_waypoints # <<>>
    /\ Len(candidates) = 2
    /\ best_candidate = candidates[2]
    /\ ~IsBetter(current_best.stress, Real(current_best.distance),
                 round_start_best.stress, Real(round_start_best.distance))

\* C15: on a non-empty list of routes (of positive durations) whose shortest
\* distance is positive, the selection under the distance limit returns a
\* route: the search's current_best after the baseline is the route
\* _best_under_limit selects, never the fallback's, and select_best_route
\* does not return None.
C15_BaselineSelectionReturnsRoute ==
    /\ (Started /\ baseline_routes # <<>> /\ PositiveDistances(baseline_routes)) =>
          /\ Le(Real(shortest_distance), max_allowed_distance)
          /\ IsRoute(BestUnderLimit(baseline_routes, max_allowed_distance))
          /\ baseline_best = BestUnderLimit(baseline_routes, max_allowed_distance)
    /\ (arg_routes # <<>> /\ PositiveDistances(arg_routes) /\ ret_route # NotCalled) =>
          IsRoute(ret_route)
\* the baseline selected a route while a calmer route of the baseline was
\* over the limit
C15_Witness ==
    /\ Started
    /\ Len(baseline_routes) >= 2
    /\ \E i \in DOMAIN baseline_routes :
         /\ Lt(max_allowed_distance, Real(baseline_routes[i].distance))
         /\ Lt(StressOf(baseline_routes[i]), Sub(baseline_best.stress, STRESS_EPSILON))
    /\ IsRoute(baseline_best)
====
